---- MODULE Spec2Model ----
(***************************************************************************)
(* A model of the RPC runtime of src/src/system.rs: the request table     *)
(* (Queue), Client::call_raw / Client::call, the encode (writer) and      *)
(* decode (reader) loops with their supervisory threads, the per-message  *)
(* dispatch workers running handle_message, and Runtime::join/shutdown.   *)
(*                                                                         *)
(* Threads are the callers of call (one per element of Calls), the writer  *)
(* loop, the reader loop, one dispatch worker per decoded message, the two *)
(* supervisory threads and the thread owning the Runtime (join, shutdown). *)
(* In Spec a critical section on the Queue mutex is one action: the mutex   *)
(* makes it indivisible. LockSpec splits each critical section into the    *)
(* acquisition of the mutex and the guarded operation with the release.    *)
(***************************************************************************)
EXTENDS Integers, Sequences, FiniteSets, TLC

\* ------------------------------------------------------------------ bounds
MaxCalls == 2      \* number of call invocations (threads calling Client::call)
MaxDecode == 2     \* number of messages the peer sends / the reader decodes
MaxJoins == 2      \* number of Runtime::join invocations by the owner
MaxPending == 1    \* number of get_pending queries

Calls == 1..MaxCalls
Joins == 1..MaxJoins

\* ------------------------------------------------------------ value model
None == <<>>
Some(x) == <<x>>

\* P: a parameter value exposes its method name (Atom::method)
Params == {<<"echo", 1>>, <<"add", 2>>}
method(p) == p[1]

\* R: result values; the peer may answer with any of them
Results == {"r1", "r2"}

\* strings are sequences of tokens
Boom == <<"boom">>

\* errors a handler may return
HandlerErrors == {"custom"}

Request(id, params) ==
    [type |-> "Request", id |-> id, params |-> Some(params), results |-> None, error |-> None]
Response(id, results, error) ==
    [type |-> "Response", id |-> id, params |-> None, results |-> results, error |-> error]
Notification ==
    [type |-> "Notification", id |-> 0, params |-> None, results |-> None, error |-> None]

\* format!("internal error: {:#?}", error)
FormatInternalError(e) == <<"internal error: ", e>>

\* ids the peer uses for its own Requests
PeerRequestIds == {7}

\* payloads (results, error) of the Responses the peer sends
InPayloads == {<<Some("r1"), None>>, <<None, Some(Boom)>>}

\* what Decoder::decode can yield; id MaxCalls is never allocated by next_id
InboundMessages ==
    {Response(i, pl[1], pl[2]) : i \in 0..MaxCalls, pl \in InPayloads}
    \cup {Request(i, <<"echo", 1>>) : i \in PeerRequestIds}
    \cup {Notification}

VARIABLES
    id,                  \* Queue::id, the next request id
    in_flight_requests,  \* Queue::in_flight_requests: id -> [method, tx]
    callPc,              \* position of each caller in call / call_raw
    callId,              \* the id call_raw obtained from next_id
    callParams,          \* the params the caller passed
    callResult,          \* what call_raw returned
    callOutcome,         \* what call returned
    completion,          \* per call: messages sitting in the completion channel
    sink,                \* the outbound mpsc queue of SinkValue
    enqueued,            \* history: every SinkValue ever sent on sink, in order
    writer,              \* encode loop: "recv" | "encode" | "returned" | "panicked"
    writerMsg,           \* the message the encode loop is encoding
    wire,                \* messages encoded onto the connection, in order
    conn,                \* "open" | "shutdown" | "closed" (peer hung up)
    reader,              \* decode loop: "decode" | "panicked"
    workerMsg,           \* per dispatch worker: the decoded message
    workerPc,            \* per dispatch worker: position in handle_message
    workerOut,           \* per dispatch worker: Response built / entry removed
    err_rx,              \* the error channel read by join
    supervisor,          \* the two supervisory threads: "join" | "sent" | "exit"
    joinPc,              \* per join invocation
    joinRes,             \* per join invocation: the results received so far
    joinRet,             \* per join invocation: the value returned
    lock,                \* the Mutex around the Queue: its holder, and whether poisoned
    pending              \* what the calls of get_pending made so far returned

vars == <<id, in_flight_requests, callPc, callId, callParams, callResult, callOutcome,
          completion, sink, enqueued, writer, writerMsg, wire, conn, reader,
          workerMsg, workerPc, workerOut, err_rx, supervisor, joinPc, joinRes, joinRet,
          lock, pending>>

queueVars == <<id, in_flight_requests, lock, pending>>
callVars == <<callPc, callId, callParams, callResult, callOutcome>>
writerVars == <<writer, writerMsg, wire>>
workerVars == <<workerMsg, workerPc, workerOut>>
joinVars == <<joinPc, joinRes, joinRet>>

\* ------------------------------------------------------------- Result<T, E>
Ok(v) == [ok |-> TRUE, val |-> v]
Err(e) == [ok |-> FALSE, val |-> e]

\* SinkValue
SinkMessage(m) == [kind |-> "Message", msg |-> m]
SinkShutdown == [kind |-> "Shutdown", msg |-> Notification]

\* ------------------------------------------------------------------- Queue
\* a next_id that forgets the increment
next_id_NoIncrement(cur) == [res |-> cur, id |-> cur]

\* Queue::next_id: returns the counter and increments it. The counter is a
\* u32; it is incremented once per call_raw, so with at most MaxCalls calls
\* it stays far below 2^32 and the increment never overflows
next_id(cur) == [res |-> cur, id |-> cur + 1]

\* HashMap::insert
Insert(tbl, k, v) == [x \in (DOMAIN tbl) \cup {k} |-> IF x = k THEN v ELSE tbl[x]]

\* a remove that takes whatever entry it finds when the key is absent
Remove_AnyEntry(tbl, k) ==
    LET key == IF k \in DOMAIN tbl \/ DOMAIN tbl = {} THEN k
               ELSE CHOOSE x \in DOMAIN tbl : TRUE IN
    [tbl |-> [x \in (DOMAIN tbl) \ {key} |-> tbl[x]],
     val |-> IF key \in DOMAIN tbl THEN Some(tbl[key]) ELSE None]

\* a remove that hands out the entry and leaves it in the table
Remove_KeepEntry(tbl, k) ==
    [tbl |-> tbl,
     val |-> IF k \in DOMAIN tbl THEN Some(tbl[k]) ELSE None]

\* HashMap::remove: the table without the key, and the value removed if any
Remove(tbl, k) ==
    [tbl |-> [x \in (DOMAIN tbl) \ {k} |-> tbl[x]],
     val |-> IF k \in DOMAIN tbl THEN Some(tbl[k]) ELSE None]

\* a lookup that is off by one
get_pending_NextKey(tbl, k) == IF k + 1 \in DOMAIN tbl THEN Some(tbl[k + 1].method) ELSE None

\* Queue::get_pending
get_pending(tbl, k) == IF k \in DOMAIN tbl THEN Some(tbl[k].method) ELSE None

InFlightRequest(m, c) == [method |-> m, tx |-> c]

\* ------------------------------------------------------------ Mutex<Queue>
\* Mutex::new: nobody holds it, and it is not poisoned
Unlocked == [holder |-> None, poisoned |-> FALSE]

\* the threads that take the mutex
CallThread(c) == <<"call", c>>
WorkerThread(w) == <<"worker", w>>

\* MutexGuard acquired by thread t
Acquire(l, t) == [l EXCEPT !.holder = Some(t)]

\* a thread leaves a scope normally: the guard it holds, if any, is dropped
Drop(l, t) == IF l.holder = Some(t) THEN [l EXCEPT !.holder = None] ELSE l

\* a thread panics: the guard it holds, if any, is dropped during the
\* unwinding, which poisons the mutex
Unwind(l, t) == IF l.holder = Some(t) THEN [holder |-> None, poisoned |-> TRUE] ELSE l

\* a receive that takes the newest value
Recv_Newest(q) == [val |-> q[Len(q)], rest |-> SubSeq(q, 1, Len(q) - 1)]

\* mpsc::Receiver::recv on a queue that holds a value: the oldest value
\* sent, and the queue without it
Recv(q) == [val |-> Head(q), rest |-> Tail(q)]

\* ------------------------------------------------------- channel liveness
\* the receiving end of the outbound queue lives in the encode loop's closure
SinkReceiverAlive == writer \in {"recv", "encode"}

\* the receiving end of a completion channel lives in call_raw's frame,
\* from its creation (with the table entry) until call_raw returns
CompletionReceiverAlive(c) == callPc[c] \in {"registered", "waiting"}

\* the sending end of a completion channel lives in the table entry, or in
\* the dispatch worker that removed the entry and has not delivered yet
CompletionSenderAlive(c) ==
    \/ \E k \in DOMAIN in_flight_requests : in_flight_requests[k].tx = c
    \/ \E w \in 1..Len(workerPc) : workerPc[w] = "deliver" /\ workerOut[w][1].tx = c

\* both senders of the error channel are owned by the supervisory threads
ErrSendersAlive == \E s \in DOMAIN supervisor : supervisor[s] # "exit"

\* ------------------------------------------------------------ Client::call
\* the projection supplied at the call site: each method expects one shape
downgrade(p, r) ==
    IF (method(p) = "echo" /\ r = "r1") \/ (method(p) = "add" /\ r = "r2")
    THEN Some(<<method(p), r>>)
    ELSE None

\* a call that looks at results before error
call_ResultsFirst(p, raw) ==
    IF raw.ok
    THEN LET m == raw.val IN
         IF m.type = "Response"
         THEN IF m.results # None
              THEN LET d == downgrade(p, m.results[1]) IN
                   IF d # None THEN Ok(d[1]) ELSE Err(<<"WrongResults">>)
              ELSE IF m.error # None
                   THEN Err(<<"RemoteError", m.error[1]>>)
                   ELSE Err(<<"MissingResults">>)
         ELSE Err(<<"WrongMessageType">>)
    ELSE Err(<<"TransportError", raw.val>>)

\* Client::call applied to what call_raw returned
call(p, raw) ==
    IF raw.ok
    THEN LET m == raw.val IN
         IF m.type = "Response"
         THEN IF m.error # None
              THEN Err(<<"RemoteError", m.error[1]>>)
              ELSE IF m.results # None
                   THEN LET d == downgrade(p, m.results[1]) IN
                        IF d # None THEN Ok(d[1]) ELSE Err(<<"WrongResults">>)
                   ELSE Err(<<"MissingResults">>)
         ELSE Err(<<"WrongMessageType">>)
    ELSE Err(<<"TransportError", raw.val>>)

\* -------------------------------------------------------- Client::call_raw
\* the params each call site passes: odd callers call echo, even ones add
ParamsOf(c) == IF c % 2 = 1 THEN <<"echo", 1>> ELSE <<"add", 2>>

\* a call_raw that enqueues its Request as soon as it has the id
CallNextId_SendFirst(c) ==
    /\ callPc[c] = "idle"
    /\ callParams' = [callParams EXCEPT ![c] = Some(ParamsOf(c))]
    /\ callId' = [callId EXCEPT ![c] = next_id(id).res]
    /\ id' = next_id(id).id
    /\ callPc' = [callPc EXCEPT ![c] = "allocated"]
    /\ sink' = IF SinkReceiverAlive
               THEN Append(sink, SinkMessage(Request(next_id(id).res, ParamsOf(c))))
               ELSE sink
    /\ enqueued' = IF SinkReceiverAlive
                   THEN Append(enqueued, SinkMessage(Request(next_id(id).res, ParamsOf(c))))
                   ELSE enqueued
    /\ UNCHANGED <<in_flight_requests, lock, pending, callResult, callOutcome, completion,
                   writerVars, conn, reader, workerVars, err_rx, supervisor, joinVars>>

\* lines 86-89: lock, next_id, unlock
CallNextId(c) ==
    /\ callPc[c] = "idle"
    /\ callParams' = [callParams EXCEPT ![c] = Some(ParamsOf(c))]
    /\ callId' = [callId EXCEPT ![c] = next_id(id).res]
    /\ id' = next_id(id).id
    /\ callPc' = [callPc EXCEPT ![c] = "allocated"]
    /\ UNCHANGED <<in_flight_requests, lock, pending, callResult, callOutcome, completion,
                   sink, enqueued, writerVars, conn, reader, workerVars, err_rx, supervisor,
                   joinVars>>

\* lines 91-99: build the Request, create the channel, lock, insert, unlock
CallRegister(c) ==
    /\ callPc[c] = "allocated"
    /\ in_flight_requests' =
           Insert(in_flight_requests, callId[c],
                  InFlightRequest(method(callParams[c][1]), c))
    /\ callPc' = [callPc EXCEPT ![c] = "registered"]
    /\ UNCHANGED <<id, lock, pending, callId, callParams, callResult, callOutcome,
                   completion, sink, enqueued, writerVars, conn, reader, workerVars, err_rx,
                   supervisor, joinVars>>

\* a call_raw that takes its entry back when the send fails
CallSend_UnregisterOnError(c) ==
    /\ callPc[c] = "registered"
    /\ LET m == Request(callId[c], callParams[c][1]) IN
       IF SinkReceiverAlive
       THEN /\ sink' = Append(sink, SinkMessage(m))
            /\ enqueued' = Append(enqueued, SinkMessage(m))
            /\ callPc' = [callPc EXCEPT ![c] = "waiting"]
            /\ UNCHANGED <<callResult, callOutcome, in_flight_requests>>
       ELSE /\ callResult' = [callResult EXCEPT ![c] = Some(Err(<<"SendError">>))]
            /\ callOutcome' =
                   [callOutcome EXCEPT ![c] = Some(call(callParams[c][1], Err(<<"SendError">>)))]
            /\ callPc' = [callPc EXCEPT ![c] = "done"]
            /\ in_flight_requests' = Remove(in_flight_requests, callId[c]).tbl
            /\ UNCHANGED <<sink, enqueued>>
    /\ UNCHANGED <<id, lock, pending, callId, callParams, completion, writerVars, conn,
                   reader, workerVars, err_rx, supervisor, joinVars>>

\* lines 101-104: sink.send(SinkValue::Message(m))?
CallSend(c) ==
    /\ callPc[c] = "registered"
    /\ LET m == Request(callId[c], callParams[c][1]) IN
       IF SinkReceiverAlive
       THEN /\ sink' = Append(sink, SinkMessage(m))
            /\ enqueued' = Append(enqueued, SinkMessage(m))
            /\ callPc' = [callPc EXCEPT ![c] = "waiting"]
            /\ UNCHANGED <<callResult, callOutcome>>
       ELSE /\ callResult' = [callResult EXCEPT ![c] = Some(Err(<<"SendError">>))]
            /\ callOutcome' =
                   [callOutcome EXCEPT ![c] = Some(call(callParams[c][1], Err(<<"SendError">>)))]
            /\ callPc' = [callPc EXCEPT ![c] = "done"]
            /\ UNCHANGED <<sink, enqueued>>
    /\ UNCHANGED <<queueVars, callId, callParams, completion, writerVars, conn, reader,
                   workerVars, err_rx, supervisor, joinVars>>

\* line 105: Ok(rx.recv()?), then Client::call maps the result (lines 113-127)
CallRecv(c) ==
    /\ callPc[c] = "waiting"
    /\ completion[c] # <<>> \/ ~CompletionSenderAlive(c)
    /\ LET raw == IF completion[c] # <<>> THEN Ok(Recv(completion[c]).val)
                  ELSE Err(<<"RecvError">>) IN
       /\ callResult' = [callResult EXCEPT ![c] = Some(raw)]
       /\ callOutcome' = [callOutcome EXCEPT ![c] = Some(call(callParams[c][1], raw))]
    /\ completion' = [completion EXCEPT ![c] = IF @ # <<>> THEN Recv(@).rest ELSE @]
    /\ callPc' = [callPc EXCEPT ![c] = "done"]
    /\ UNCHANGED <<queueVars, callId, callParams, sink, enqueued, writerVars, conn, reader,
                   workerVars, err_rx, supervisor, joinVars>>

\* -------------------------------------------------- encode loop (writer)
\* line 230: rx.recv().unwrap(), and the Shutdown arm (lines 234-237),
\* which returns and so drops rx with what it still holds
WriterRecv ==
    /\ writer = "recv"
    /\ sink # <<>>
    /\ LET got == Recv(sink) IN
       IF got.val.kind = "Message"
       THEN /\ writer' = "encode"
            /\ writerMsg' = Some(got.val.msg)
            /\ sink' = got.rest
       ELSE /\ writer' = "returned"
            /\ writerMsg' = None
            /\ sink' = <<>>
    /\ UNCHANGED <<queueVars, callVars, completion, enqueued, wire, conn, reader,
                   workerVars, err_rx, supervisor, joinVars>>

\* line 232: encoder.encode(m).unwrap(); a write on a connection that is
\* shut down or closed fails, the panic drops rx and what it still holds
WriterEncode ==
    /\ writer = "encode"
    /\ IF conn = "open"
       THEN /\ wire' = Append(wire, writerMsg[1])
            /\ writer' = "recv"
            /\ sink' = sink
       ELSE /\ wire' = wire
            /\ writer' = "panicked"
            /\ sink' = <<>>
    /\ writerMsg' = None
    /\ UNCHANGED <<queueVars, callVars, completion, enqueued, conn, reader,
                   workerVars, err_rx, supervisor, joinVars>>

\* -------------------------------------------------- decode loop (reader)
\* a decode loop that dispatches inline: it decodes the next message only
\* when the dispatch of the previous ones has ended
ReaderDecode_Inline ==
    /\ reader = "decode"
    /\ conn = "open"
    /\ Len(workerMsg) < MaxDecode
    /\ \A w \in 1..Len(workerPc) : workerPc[w] \in {"ok", "err", "panicked"}
    /\ \E m \in InboundMessages : workerMsg' = Append(workerMsg, m)
    /\ workerPc' = Append(workerPc, "start")
    /\ workerOut' = Append(workerOut, None)
    /\ UNCHANGED <<queueVars, callVars, completion, sink, enqueued, writerVars, conn,
                   reader, err_rx, supervisor, joinVars>>

\* lines 245-254: decode one message and spawn its dispatch worker
ReaderDecode ==
    /\ reader = "decode"
    /\ conn = "open"
    /\ Len(workerMsg) < MaxDecode
    /\ \E m \in InboundMessages : workerMsg' = Append(workerMsg, m)
    /\ workerPc' = Append(workerPc, "start")
    /\ workerOut' = Append(workerOut, None)
    /\ UNCHANGED <<queueVars, callVars, completion, sink, enqueued, writerVars, conn,
                   reader, err_rx, supervisor, joinVars>>

\* line 245: decoder.decode().unwrap() on a connection shut down or closed
ReaderFail ==
    /\ reader = "decode"
    /\ conn # "open"
    /\ reader' = "panicked"
    /\ UNCHANGED <<queueVars, callVars, completion, sink, enqueued, writerVars, conn,
                   workerVars, err_rx, supervisor, joinVars>>

\* ---------------------------------------------- handle_message (worker)
Workers == 1..Len(workerPc)

\* a worker that has ended has dropped the message it was spawned with
Dropped == [type |-> "Dropped", id |-> 0, params |-> None, results |-> None, error |-> None]

\* what Handler::handle can do when it comes back: a result, an error, a panic
HandlerOutcomes == {Ok(r) : r \in {"r1"}} \cup {Err(e) : e \in HandlerErrors}
                   \cup {[ok |-> FALSE, val |-> "panic"]}

\* a Response that does not carry the Request's id
HandlerResponse_FreshId(rid, out) ==
    IF out.ok THEN Response(0, Some(out.val), None)
    ELSE Response(0, None, Some(FormatInternalError(out.val)))

\* lines 281-290: the Response built from the handler's return value
HandlerResponse(rid, out) ==
    IF out.ok THEN Response(rid, Some(out.val), None)
    ELSE Response(rid, None, Some(FormatInternalError(out.val)))

\* lines 279-291: Message::Request: run the handler, build the Response
WorkerHandle(w) ==
    /\ workerPc[w] = "start"
    /\ workerMsg[w].type = "Request"
    /\ \E out \in HandlerOutcomes :
         IF out.val = "panic"
         THEN /\ workerPc' = [workerPc EXCEPT ![w] = "panicked"]
              /\ workerOut' = workerOut
              /\ workerMsg' = [workerMsg EXCEPT ![w] = Dropped]
              /\ lock' = Unwind(lock, WorkerThread(w))
         ELSE /\ workerPc' = [workerPc EXCEPT ![w] = "send"]
              /\ workerOut' = [workerOut EXCEPT ![w] = Some(HandlerResponse(workerMsg[w].id, out))]
              /\ workerMsg' = workerMsg
              /\ lock' = lock
    /\ UNCHANGED <<id, in_flight_requests, pending, callVars, completion, sink, enqueued,
                   writerVars, conn, reader, err_rx, supervisor, joinVars>>

\* line 292: client.sink.send(SinkValue::Message(m)).unwrap()
WorkerSend(w) ==
    /\ workerPc[w] = "send"
    /\ IF SinkReceiverAlive
       THEN /\ sink' = Append(sink, SinkMessage(workerOut[w][1]))
            /\ enqueued' = Append(enqueued, SinkMessage(workerOut[w][1]))
            /\ workerPc' = [workerPc EXCEPT ![w] = "ok"]
            /\ lock' = Drop(lock, WorkerThread(w))
       ELSE /\ UNCHANGED <<sink, enqueued>>
            /\ workerPc' = [workerPc EXCEPT ![w] = "panicked"]
            /\ lock' = Unwind(lock, WorkerThread(w))
    /\ workerOut' = [workerOut EXCEPT ![w] = None]
    /\ workerMsg' = [workerMsg EXCEPT ![w] = Dropped]
    /\ UNCHANGED <<id, in_flight_requests, pending, callVars, completion, writerVars, conn,
                   reader, err_rx, supervisor, joinVars>>

\* a dispatch that clears the table when the id is unknown
WorkerRemove_ClearOnMiss(w) ==
    /\ workerPc[w] = "start"
    /\ workerMsg[w].type = "Response"
    /\ LET removed == Remove(in_flight_requests, workerMsg[w].id) IN
       /\ in_flight_requests' = IF removed.val # None THEN removed.tbl ELSE <<>>
       /\ workerOut' = [workerOut EXCEPT ![w] = removed.val]
       /\ workerPc' = [workerPc EXCEPT ![w] = IF removed.val # None THEN "deliver" ELSE "ok"]
       /\ workerMsg' = [workerMsg EXCEPT ![w] = IF removed.val # None THEN @ ELSE Dropped]
    /\ UNCHANGED <<id, lock, pending, callVars, completion, sink, enqueued, writerVars,
                   conn, reader, err_rx, supervisor, joinVars>>

\* lines 295-298: Message::Response: lock, remove(&id), unlock
WorkerRemove(w) ==
    /\ workerPc[w] = "start"
    /\ workerMsg[w].type = "Response"
    /\ LET removed == Remove(in_flight_requests, workerMsg[w].id) IN
       /\ in_flight_requests' = removed.tbl
       /\ workerOut' = [workerOut EXCEPT ![w] = removed.val]
       /\ workerPc' = [workerPc EXCEPT ![w] = IF removed.val # None THEN "deliver" ELSE "ok"]
       /\ workerMsg' = [workerMsg EXCEPT ![w] = IF removed.val # None THEN @ ELSE Dropped]
    /\ UNCHANGED <<id, lock, pending, callVars, completion, sink, enqueued, writerVars,
                   conn, reader, err_rx, supervisor, joinVars>>

\* lines 299-302: in_flight.tx.send(Message::Response {..}).unwrap()
WorkerDeliver(w) ==
    /\ workerPc[w] = "deliver"
    /\ LET c == workerOut[w][1].tx IN
       IF CompletionReceiverAlive(c)
       THEN /\ completion' = [completion EXCEPT ![c] =
                   Append(@, Response(workerMsg[w].id, workerMsg[w].results, workerMsg[w].error))]
            /\ workerPc' = [workerPc EXCEPT ![w] = "ok"]
            /\ lock' = Drop(lock, WorkerThread(w))
       ELSE /\ completion' = completion
            /\ workerPc' = [workerPc EXCEPT ![w] = "panicked"]
            /\ lock' = Unwind(lock, WorkerThread(w))
    /\ workerOut' = [workerOut EXCEPT ![w] = None]
    /\ workerMsg' = [workerMsg EXCEPT ![w] = Dropped]
    /\ UNCHANGED <<id, in_flight_requests, pending, callVars, sink, enqueued, writerVars,
                   conn, reader, err_rx, supervisor, joinVars>>

\* a dispatch that runs on the decode loop's thread: its panic ends the loop
WorkerNotification_Fatal(w) ==
    /\ workerPc[w] = "start"
    /\ workerMsg[w].type = "Notification"
    /\ workerPc' = [workerPc EXCEPT ![w] = "panicked"]
    /\ workerMsg' = [workerMsg EXCEPT ![w] = Dropped]
    /\ lock' = Unwind(lock, WorkerThread(w))
    /\ reader' = "panicked"
    /\ UNCHANGED <<id, in_flight_requests, pending, callVars, completion, sink, enqueued,
                   writerVars, conn, workerOut, err_rx, supervisor, joinVars>>

\* line 305: Message::Notification { .. } => unimplemented!()
WorkerNotification(w) ==
    /\ workerPc[w] = "start"
    /\ workerMsg[w].type = "Notification"
    /\ workerPc' = [workerPc EXCEPT ![w] = "panicked"]
    /\ workerMsg' = [workerMsg EXCEPT ![w] = Dropped]
    /\ lock' = Unwind(lock, WorkerThread(w))
    /\ UNCHANGED <<id, in_flight_requests, pending, callVars, completion, sink, enqueued,
                   writerVars, conn, reader, workerOut, err_rx, supervisor, joinVars>>

\* ---------------------------------------------------- supervisory threads
Loops == {"writer", "reader"}

LoopState(s) == IF s = "writer" THEN writer ELSE reader

\* JoinHandle::join of a loop thread: Ok(()) if it returned, Err(payload) if it panicked
LoopResult(s) == IF LoopState(s) = "returned" THEN Ok(<<>>) ELSE Err(<<"panic", s>>)

\* a supervisory thread that reports its loop's result twice
SupervisorSend_Twice(s) ==
    /\ supervisor[s] = "join"
    /\ LoopState(s) \in {"returned", "panicked"}
    /\ err_rx' = err_rx \o <<LoopResult(s), LoopResult(s)>>
    /\ supervisor' = [supervisor EXCEPT ![s] = "sent"]
    /\ UNCHANGED <<queueVars, callVars, completion, sink, enqueued, writerVars, conn,
                   reader, workerVars, joinVars>>

\* lines 241 and 257: err_tx.send(handle.join()).unwrap()
SupervisorSend(s) ==
    /\ supervisor[s] = "join"
    /\ LoopState(s) \in {"returned", "panicked"}
    /\ err_rx' = Append(err_rx, LoopResult(s))
    /\ supervisor' = [supervisor EXCEPT ![s] = "sent"]
    /\ UNCHANGED <<queueVars, callVars, completion, sink, enqueued, writerVars, conn,
                   reader, workerVars, joinVars>>

\* lines 242 and 258: the closure ends and drops its sender
SupervisorExit(s) ==
    /\ supervisor[s] = "sent"
    /\ supervisor' = [supervisor EXCEPT ![s] = "exit"]
    /\ UNCHANGED <<queueVars, callVars, completion, sink, enqueued, writerVars, conn,
                   reader, workerVars, err_rx, joinVars>>

\* ------------------------------------------------------------ Runtime::join
\* Runtime holds an mpsc::Receiver, so it is not Sync: join and shutdown are
\* called from one thread at a time, and join blocks that thread
OwnerBusy == \E j \in Joins : joinPc[j] \in {"recv1", "recv2"}

\* a join that looks at the second result first
JoinResult_SecondFirst(res1, res2) ==
    IF ~res2.ok THEN res2
    ELSE IF ~res1.ok THEN res1
    ELSE Ok(<<>>)

\* lines 181-187: the value join returns from the two results
JoinResult(res1, res2) ==
    IF ~res1.ok THEN res1
    ELSE IF ~res2.ok THEN res2
    ELSE Ok(<<>>)

\* line 171: the owner calls join
JoinCall(j) ==
    /\ joinPc[j] = "idle"
    /\ ~OwnerBusy
    /\ \A k \in Joins : k < j => joinPc[k] # "idle"
    /\ joinPc' = [joinPc EXCEPT ![j] = "recv1"]
    /\ UNCHANGED <<queueVars, callVars, completion, sink, enqueued, writerVars, conn,
                   reader, workerVars, err_rx, supervisor, joinRes, joinRet>>

\* line 172: let res1 = self.err_rx.recv().unwrap()
JoinRecv1(j) ==
    /\ joinPc[j] = "recv1"
    /\ err_rx # <<>> \/ ~ErrSendersAlive
    /\ IF err_rx # <<>>
       THEN /\ joinRes' = [joinRes EXCEPT ![j] = <<Recv(err_rx).val>>]
            /\ err_rx' = Recv(err_rx).rest
            /\ joinPc' = [joinPc EXCEPT ![j] = "recv2"]
       ELSE /\ UNCHANGED <<joinRes, err_rx>>
            /\ joinPc' = [joinPc EXCEPT ![j] = "panicked"]
    /\ UNCHANGED <<queueVars, callVars, completion, sink, enqueued, writerVars, conn,
                   reader, workerVars, supervisor, joinRet>>

\* lines 176-187: let res2 = self.err_rx.recv().unwrap(), then the match
JoinRecv2(j) ==
    /\ joinPc[j] = "recv2"
    /\ err_rx # <<>> \/ ~ErrSendersAlive
    /\ IF err_rx # <<>>
       THEN /\ joinRes' = [joinRes EXCEPT ![j] = Append(@, Recv(err_rx).val)]
            /\ err_rx' = Recv(err_rx).rest
            /\ joinRet' = [joinRet EXCEPT ![j] =
                   Some(JoinResult(joinRes[j][1], Recv(err_rx).val))]
            /\ joinPc' = [joinPc EXCEPT ![j] = "returned"]
       ELSE /\ UNCHANGED <<joinRes, err_rx, joinRet>>
            /\ joinPc' = [joinPc EXCEPT ![j] = "panicked"]
    /\ UNCHANGED <<queueVars, callVars, completion, sink, enqueued, writerVars, conn,
                   reader, workerVars, supervisor>>

\* -------------------------------------------------------- Runtime::shutdown
\* a shutdown that also tells the encode loop to stop
Shutdown_Sentinel ==
    /\ conn = "open"
    /\ ~OwnerBusy
    /\ conn' = "shutdown"
    /\ sink' = IF SinkReceiverAlive THEN Append(sink, SinkShutdown) ELSE sink
    /\ enqueued' = IF SinkReceiverAlive THEN Append(enqueued, SinkShutdown) ELSE enqueued
    /\ UNCHANGED <<queueVars, callVars, completion, writerVars, reader,
                   workerVars, err_rx, supervisor, joinVars>>

\* lines 194-198: shutdown_handle.shutdown(Shutdown::Both)
Shutdown ==
    /\ conn = "open"
    /\ ~OwnerBusy
    /\ conn' = "shutdown"
    /\ UNCHANGED <<queueVars, callVars, completion, sink, enqueued, writerVars, reader,
                   workerVars, err_rx, supervisor, joinVars>>

\* the peer hangs up: reads and writes on the connection fail from then on
PeerClose ==
    /\ conn = "open"
    /\ conn' = "closed"
    /\ UNCHANGED <<queueVars, callVars, completion, sink, enqueued, writerVars, reader,
                   workerVars, err_rx, supervisor, joinVars>>

\* ------------------------------------------------------------------- spawn
\* lines 201-265 and Queue::new (lines 336-341)
Init ==
    /\ id = 0
    /\ in_flight_requests = <<>>
    /\ callPc = [c \in Calls |-> "idle"]
    /\ callId = [c \in Calls |-> 0]
    /\ callParams = [c \in Calls |-> None]
    /\ callResult = [c \in Calls |-> None]
    /\ callOutcome = [c \in Calls |-> None]
    /\ completion = [c \in Calls |-> <<>>]
    /\ sink = <<>>
    /\ enqueued = <<>>
    /\ writer = "recv"
    /\ writerMsg = None
    /\ wire = <<>>
    /\ conn = "open"
    /\ reader = "decode"
    /\ workerMsg = <<>>
    /\ workerPc = <<>>
    /\ workerOut = <<>>
    /\ err_rx = <<>>
    /\ supervisor = [s \in Loops |-> "join"]
    /\ joinPc = [j \in Joins |-> "idle"]
    /\ joinRes = [j \in Joins |-> <<>>]
    /\ joinRet = [j \in Joins |-> None]
    /\ lock = Unlocked
    /\ pending = <<>>

Next ==
    \/ \E c \in Calls : CallNextId(c)
    \/ \E c \in Calls : CallRegister(c)
    \/ \E c \in Calls : CallSend(c)
    \/ \E c \in Calls : CallRecv(c)
    \/ WriterRecv
    \/ WriterEncode
    \/ ReaderDecode
    \/ ReaderFail
    \/ \E w \in Workers : WorkerHandle(w)
    \/ \E w \in Workers : WorkerSend(w)
    \/ \E w \in Workers : WorkerRemove(w)
    \/ \E w \in Workers : WorkerDeliver(w)
    \/ \E w \in Workers : WorkerNotification(w)
    \/ \E s \in Loops : SupervisorSend(s)
    \/ \E s \in Loops : SupervisorExit(s)
    \/ \E j \in Joins : JoinCall(j)
    \/ \E j \in Joins : JoinRecv1(j)
    \/ \E j \in Joins : JoinRecv2(j)
    \/ Shutdown
    \/ PeerClose

Spec == Init /\ [][Next]_vars

\* ------------------------------------------- Client::call on its own
\* what call_raw can hand to call: any Message, or a channel error
RawMessages ==
    {Response(0, r, e) : r \in {None} \cup {Some(x) : x \in Results}, e \in {None, Some(Boom)}}
    \cup {Request(0, <<"echo", 1>>), Notification}

RawResults == {Ok(m) : m \in RawMessages} \cup {Err(<<"SendError">>), Err(<<"RecvError">>)}

\* lines 113-127: the match of Client::call on call_raw's result
CallApply(c) ==
    /\ callPc[c] = "returned_raw"
    /\ callOutcome' = [callOutcome EXCEPT ![c] = Some(call(callParams[c][1], callResult[c][1]))]
    /\ callPc' = [callPc EXCEPT ![c] = "done"]
    /\ UNCHANGED <<queueVars, callId, callParams, callResult, completion, sink, enqueued,
                   writerVars, conn, reader, workerVars, err_rx, supervisor, joinVars>>

\* every caller is back from call_raw with some result, for some params
InitCall ==
    /\ id = MaxCalls
    /\ in_flight_requests = <<>>
    /\ callPc = [c \in Calls |-> "returned_raw"]
    /\ callId = [c \in Calls |-> c - 1]
    /\ callParams \in [Calls -> {Some(p) : p \in Params}]
    /\ callResult \in [Calls -> {Some(r) : r \in RawResults}]
    /\ callOutcome = [c \in Calls |-> None]
    /\ completion = [c \in Calls |-> <<>>]
    /\ sink = <<>>
    /\ enqueued = <<>>
    /\ writer = "recv"
    /\ writerMsg = None
    /\ wire = <<>>
    /\ conn = "open"
    /\ reader = "decode"
    /\ workerMsg = <<>>
    /\ workerPc = <<>>
    /\ workerOut = <<>>
    /\ err_rx = <<>>
    /\ supervisor = [s \in Loops |-> "join"]
    /\ joinPc = [j \in Joins |-> "idle"]
    /\ joinRes = [j \in Joins |-> <<>>]
    /\ joinRet = [j \in Joins |-> None]
    /\ lock = Unlocked
    /\ pending = <<>>

NextCall == \E c \in Calls : CallApply(c)

CallSpec == InitCall /\ [][NextCall]_vars

\* Every thread that can take a step is eventually scheduled: the steps of
\* call_raw after the id allocation, the two loops, the dispatch workers,
\* the supervisory threads and a join in progress. Starting a call, a join
\* or a shutdown, the peer sending a message and the peer hanging up are
\* choices of the environment and carry no fairness.
Fairness ==
    /\ \A c \in Calls : WF_vars(CallRegister(c))
    /\ \A c \in Calls : WF_vars(CallSend(c))
    /\ \A c \in Calls : WF_vars(CallRecv(c))
    /\ WF_vars(WriterRecv)
    /\ WF_vars(WriterEncode)
    /\ WF_vars(ReaderFail)
    /\ \A w \in 1..MaxDecode : WF_vars(w \in Workers /\ WorkerHandle(w))
    /\ \A w \in 1..MaxDecode : WF_vars(w \in Workers /\ WorkerSend(w))
    /\ \A w \in 1..MaxDecode : WF_vars(w \in Workers /\ WorkerRemove(w))
    /\ \A w \in 1..MaxDecode : WF_vars(w \in Workers /\ WorkerDeliver(w))
    /\ \A w \in 1..MaxDecode : WF_vars(w \in Workers /\ WorkerNotification(w))
    /\ \A s \in Loops : WF_vars(SupervisorSend(s))
    /\ \A s \in Loops : WF_vars(SupervisorExit(s))
    /\ \A j \in Joins : WF_vars(JoinRecv1(j))
    /\ \A j \in Joins : WF_vars(JoinRecv2(j))

FairSpec == Init /\ [][Next]_vars /\ Fairness

\* --------------------------------- the critical sections, step by step
\* the error call_raw returns when the mutex is poisoned
PoisonError == Err(<<"PoisonError">>)

\* line 87: self.queue.lock()? before the id allocation
CallLockNextId(c) ==
    /\ callPc[c] = "idle"
    /\ lock.holder = None
    /\ callParams' = [callParams EXCEPT ![c] = Some(ParamsOf(c))]
    /\ IF lock.poisoned
       THEN /\ callResult' = [callResult EXCEPT ![c] = Some(PoisonError)]
            /\ callOutcome' = [callOutcome EXCEPT ![c] = Some(call(ParamsOf(c), PoisonError))]
            /\ callPc' = [callPc EXCEPT ![c] = "done"]
            /\ lock' = lock
       ELSE /\ lock' = Acquire(lock, CallThread(c))
            /\ callPc' = [callPc EXCEPT ![c] = "locked_next_id"]
            /\ UNCHANGED <<callResult, callOutcome>>
    /\ UNCHANGED <<id, in_flight_requests, pending, callId, completion, sink, enqueued,
                   writerVars, conn, reader, workerVars, err_rx, supervisor, joinVars>>

\* lines 88-89: queue.next_id(), and the guard dropped at the end of the block
CallNextIdLocked(c) ==
    /\ callPc[c] = "locked_next_id"
    /\ callId' = [callId EXCEPT ![c] = next_id(id).res]
    /\ id' = next_id(id).id
    /\ lock' = Drop(lock, CallThread(c))
    /\ callPc' = [callPc EXCEPT ![c] = "allocated"]
    /\ UNCHANGED <<in_flight_requests, pending, callParams, callResult, callOutcome,
                   completion, sink, enqueued, writerVars, conn, reader, workerVars, err_rx,
                   supervisor, joinVars>>

\* lines 91-97: build the Request, create the channel, self.queue.lock()?
CallLockInsert(c) ==
    /\ callPc[c] = "allocated"
    /\ lock.holder = None
    /\ IF lock.poisoned
       THEN /\ callResult' = [callResult EXCEPT ![c] = Some(PoisonError)]
            /\ callOutcome' =
                   [callOutcome EXCEPT ![c] = Some(call(callParams[c][1], PoisonError))]
            /\ callPc' = [callPc EXCEPT ![c] = "done"]
            /\ lock' = lock
       ELSE /\ lock' = Acquire(lock, CallThread(c))
            /\ callPc' = [callPc EXCEPT ![c] = "locked_insert"]
            /\ UNCHANGED <<callResult, callOutcome>>
    /\ UNCHANGED <<id, in_flight_requests, pending, callId, callParams, completion, sink,
                   enqueued, writerVars, conn, reader, workerVars, err_rx, supervisor,
                   joinVars>>

\* lines 98-99: in_flight_requests.insert(id, in_flight), and the guard dropped
CallInsertLocked(c) ==
    /\ callPc[c] = "locked_insert"
    /\ in_flight_requests' =
           Insert(in_flight_requests, callId[c],
                  InFlightRequest(method(callParams[c][1]), c))
    /\ lock' = Drop(lock, CallThread(c))
    /\ callPc' = [callPc EXCEPT ![c] = "registered"]
    /\ UNCHANGED <<id, pending, callId, callParams, callResult, callOutcome, completion,
                   sink, enqueued, writerVars, conn, reader, workerVars, err_rx, supervisor,
                   joinVars>>

\* line 296: client.queue.lock()? in the Response arm; on a poisoned mutex
\* handle_message returns the error
WorkerLockRemove(w) ==
    /\ workerPc[w] = "start"
    /\ workerMsg[w].type = "Response"
    /\ lock.holder = None
    /\ IF lock.poisoned
       THEN /\ workerPc' = [workerPc EXCEPT ![w] = "err"]
            /\ workerMsg' = [workerMsg EXCEPT ![w] = Dropped]
            /\ lock' = lock
       ELSE /\ workerPc' = [workerPc EXCEPT ![w] = "locked_remove"]
            /\ workerMsg' = workerMsg
            /\ lock' = Acquire(lock, WorkerThread(w))
    /\ UNCHANGED <<id, in_flight_requests, pending, callVars, completion, sink, enqueued,
                   writerVars, conn, reader, workerOut, err_rx, supervisor, joinVars>>

\* a dispatch whose guard lives as long as the entry it took out
WorkerRemoveLocked_GuardKept(w) ==
    /\ workerPc[w] = "locked_remove"
    /\ LET removed == Remove(in_flight_requests, workerMsg[w].id) IN
       /\ in_flight_requests' = removed.tbl
       /\ workerOut' = [workerOut EXCEPT ![w] = removed.val]
       /\ workerPc' = [workerPc EXCEPT ![w] = IF removed.val # None THEN "deliver" ELSE "ok"]
       /\ workerMsg' = [workerMsg EXCEPT ![w] = IF removed.val # None THEN @ ELSE Dropped]
       /\ lock' = IF removed.val # None THEN lock ELSE Drop(lock, WorkerThread(w))
    /\ UNCHANGED <<id, pending, callVars, completion, sink, enqueued, writerVars, conn,
                   reader, err_rx, supervisor, joinVars>>

\* lines 297-298: in_flight_requests.remove(&id), and the guard dropped at
\* the end of the block, before the entry is used
WorkerRemoveLocked(w) ==
    /\ workerPc[w] = "locked_remove"
    /\ LET removed == Remove(in_flight_requests, workerMsg[w].id) IN
       /\ in_flight_requests' = removed.tbl
       /\ workerOut' = [workerOut EXCEPT ![w] = removed.val]
       /\ workerPc' = [workerPc EXCEPT ![w] = IF removed.val # None THEN "deliver" ELSE "ok"]
       /\ workerMsg' = [workerMsg EXCEPT ![w] = IF removed.val # None THEN @ ELSE Dropped]
    /\ lock' = Drop(lock, WorkerThread(w))
    /\ UNCHANGED <<id, pending, callVars, completion, sink, enqueued, writerVars, conn,
                   reader, err_rx, supervisor, joinVars>>

\* the callers, the two loops and the dispatch workers, with every
\* acquisition of the mutex a step of its own
NextLock ==
    \/ \E c \in Calls : CallLockNextId(c)
    \/ \E c \in Calls : CallNextIdLocked(c)
    \/ \E c \in Calls : CallLockInsert(c)
    \/ \E c \in Calls : CallInsertLocked(c)
    \/ \E c \in Calls : CallSend(c)
    \/ \E c \in Calls : CallRecv(c)
    \/ WriterRecv
    \/ WriterEncode
    \/ ReaderDecode
    \/ ReaderFail
    \/ \E w \in Workers : WorkerHandle(w)
    \/ \E w \in Workers : WorkerSend(w)
    \/ \E w \in Workers : WorkerLockRemove(w)
    \/ \E w \in Workers : WorkerRemoveLocked(w)
    \/ \E w \in Workers : WorkerDeliver(w)
    \/ \E w \in Workers : WorkerNotification(w)
    \/ Shutdown
    \/ PeerClose

LockSpec == Init /\ [][NextLock]_vars

\* The scheduling the delivery of a Response relies on: a thread inside a
\* critical section leaves it, a dispatch worker with a Response gets the
\* mutex, takes the entry out and sends, and a caller blocked in recv wakes
\* up. Nothing is assumed of the handlers (WorkerHandle), which may run
\* forever, nor of the encode loop and the callers that have not registered.
FairnessLock ==
    /\ \A c \in Calls : WF_vars(CallNextIdLocked(c))
    /\ \A c \in Calls : WF_vars(CallInsertLocked(c))
    /\ \A c \in Calls : WF_vars(CallRecv(c))
    /\ \A w \in 1..MaxDecode : WF_vars(w \in Workers /\ WorkerLockRemove(w))
    /\ \A w \in 1..MaxDecode : WF_vars(w \in Workers /\ WorkerRemoveLocked(w))
    /\ \A w \in 1..MaxDecode : WF_vars(w \in Workers /\ WorkerDeliver(w))

FairLockSpec == Init /\ [][NextLock]_vars /\ FairnessLock

\* ------------------------------------------------------ Queue::get_pending
\* lines 356-358, called on the Queue behind the mutex for any id: the
\* result is recorded, the Queue is only read
GetPending(k) ==
    /\ Len(pending) < MaxPending
    /\ pending' = Append(pending, [key |-> k, val |-> get_pending(in_flight_requests, k)])
    /\ UNCHANGED <<id, in_flight_requests, lock, callVars, completion, sink, enqueued,
                   writerVars, conn, reader, workerVars, err_rx, supervisor, joinVars>>

\* the callers, the encode loop, the dispatch of Responses and shutdown,
\* with get_pending queried at any moment
NextPending ==
    \/ \E c \in Calls : CallNextId(c)
    \/ \E c \in Calls : CallRegister(c)
    \/ \E c \in Calls : CallSend(c)
    \/ \E c \in Calls : CallRecv(c)
    \/ WriterRecv
    \/ WriterEncode
    \/ ReaderDecode
    \/ \E w \in Workers : WorkerRemove(w)
    \/ \E w \in Workers : WorkerDeliver(w)
    \/ Shutdown
    \/ \E k \in 0..MaxCalls : GetPending(k)

PendingSpec == Init /\ [][NextPending]_vars

\* ---------------------------------------------------------------- claims
\* the calls that have obtained an id
Started == {c \in Calls : callPc[c] # "idle"}

\* whether call_raw returned a Message to caller c
Received(c) == callResult[c] # None /\ callResult[c][1].ok

\* C1: a Response with id i is delivered only on the completion channel of
\* the call_raw that was allocated id i, and each call_raw receives at most
\* one Message: what sits in a caller's completion channel and what its
\* call_raw returned is a Response carrying the caller's own id, at most one
\* in all.
C1_DirectedDelivery ==
    \A c \in Calls :
        /\ \A i \in 1..Len(completion[c]) :
               /\ completion[c][i].type = "Response"
               /\ completion[c][i].id = callId[c]
        /\ Received(c) =>
               /\ callResult[c][1].val.type = "Response"
               /\ callResult[c][1].val.id = callId[c]
        /\ Len(completion[c]) + (IF Received(c) THEN 1 ELSE 0) <= 1
        /\ completion[c] # <<>> => c \in Started

\* two concurrent calls have each received their own Response, with
\* different payloads
C1_Witness ==
    \E c, d \in Calls :
        /\ c # d
        /\ Received(c) /\ Received(d)
        /\ callResult[c][1].val.id = 0 /\ callResult[c][1].val.results = Some("r1")
        /\ callResult[d][1].val.id = 1 /\ callResult[d][1].val.error = Some(Boom)

\* C4: the ids returned by n calls of next_id under any interleaving are
\* exactly 0, 1, ..., n-1, all distinct: no two call_raw invocations hold
\* the same id.
C4_IdsDistinctAndSequential ==
    /\ id = Cardinality(Started)
    /\ {callId[c] : c \in Started} = 0..(Cardinality(Started) - 1)
    /\ \A c, d \in Started : c # d => callId[c] # callId[d]

\* every call has obtained an id, the last caller having got the first id
C4_Witness ==
    /\ Started = Calls
    /\ callId[MaxCalls] = 0

\* C5: dispatching a Response whose id is not a key of the in-flight table
\* returns Ok, delivers nothing on any completion channel, and leaves the
\* id counter and every in-flight entry unchanged.
C5_UnknownResponseDiscarded ==
    [][\A w \in Workers :
         (/\ workerPc[w] = "start"
          /\ workerMsg[w].type = "Response"
          /\ workerMsg[w].id \notin DOMAIN in_flight_requests
          /\ workerPc'[w] # "start")
         => (/\ workerPc'[w] = "ok"
             /\ completion' = completion
             /\ id' = id
             /\ in_flight_requests' = in_flight_requests
             /\ callPc' = callPc)]_vars

\* a worker has returned Ok without touching anything: a call is still
\* registered and waiting, nothing was delivered and nothing but Requests
\* of callers was ever enqueued, so the worker discarded a Response
C5_Witness ==
    \E w \in Workers :
        /\ workerPc[w] = "ok"
        /\ \E c \in Calls : callPc[c] = "waiting" /\ callId[c] \in DOMAIN in_flight_requests
        /\ \A c \in Calls : completion[c] = <<>> /\ callResult[c] = None
        /\ \A i \in 1..Len(enqueued) : enqueued[i].msg.type = "Request"
        /\ Cardinality(DOMAIN in_flight_requests) = Cardinality(Started)

\* whether a Result is the Err of the given kind
IsErr(res, kind) == ~res.ok /\ res.val[1] = kind

\* C6: Client::call maps what call_raw returned: a call_raw failure to
\* TransportError; a Message that is no Response to WrongMessageType; a
\* Response with error present (results present or not) to RemoteError of
\* that string; with error absent and results present to the value
\* downgrade accepts, or WrongResults if it rejects; with both absent to
\* MissingResults.
C6_CallMapping ==
    \A c \in Calls :
        callPc[c] = "done" =>
            LET raw == callResult[c][1]
                out == callOutcome[c][1]
                p == callParams[c][1] IN
            IF ~raw.ok
            THEN IsErr(out, "TransportError") /\ out.val[2] = raw.val
            ELSE IF raw.val.type # "Response"
            THEN IsErr(out, "WrongMessageType")
            ELSE IF raw.val.error # None
            THEN IsErr(out, "RemoteError") /\ out.val[2] = raw.val.error[1]
            ELSE IF raw.val.results = None
            THEN IsErr(out, "MissingResults")
            ELSE IF downgrade(p, raw.val.results[1]) = None
            THEN IsErr(out, "WrongResults")
            ELSE out.ok /\ out.val = downgrade(p, raw.val.results[1])[1]

\* call has returned RemoteError for a Response that carried both results
\* (ones downgrade accepts) and an error
C6_Witness ==
    \E c \in Calls :
        /\ callPc[c] = "done"
        /\ callResult[c][1].ok
        /\ callResult[c][1].val.type = "Response"
        /\ callResult[c][1].val.results # None
        /\ downgrade(callParams[c][1], callResult[c][1].val.results[1]) # None
        /\ callResult[c][1].val.error = Some(Boom)
        /\ IsErr(callOutcome[c][1], "RemoteError")

\* the handler step of worker w built a Response with the Request's id,
\* results alone or a formatted error alone, and stopped nothing
C7_ResponseBuilt(w) ==
    (workerPc[w] = "start" /\ workerMsg[w].type = "Request" /\ workerPc'[w] = "send")
    => LET m == workerOut'[w][1] IN
       /\ m.type = "Response"
       /\ m.id = workerMsg[w].id
       /\ \/ m.results \in {Some(r) : r \in Results} /\ m.error = None
          \/ /\ m.results = None
             /\ m.error \in {Some(<<"internal error: ", e>>) : e \in HandlerErrors}
       /\ reader' = reader /\ writer' = writer /\ sink' = sink
       /\ callPc' = callPc /\ completion' = completion
       /\ in_flight_requests' = in_flight_requests

\* a worker that has ended takes no further step
C7_Ended(w) ==
    workerPc[w] \in {"ok", "panicked"} => workerPc'[w] = workerPc[w]

\* C7 (as claimed): for every inbound Request whose handler returns, the
\* worker enqueues exactly one Response carrying the same id, results alone
\* for Ok and the formatted error alone for Err, and a handler Err stops
\* neither loop nor any call.
C7_EveryHandlerReturnEnqueues ==
    [][\A w \in Workers :
         /\ C7_ResponseBuilt(w)
         /\ C7_Ended(w)
         /\ (workerPc[w] = "send" /\ workerPc'[w] # "send")
            => /\ enqueued' = Append(enqueued, SinkMessage(workerOut[w][1]))
               /\ sink' = Append(sink, SinkMessage(workerOut[w][1]))
               /\ workerPc'[w] = "ok"]_vars

\* C7 (amended): the same, the Response being enqueued when the encode loop
\* still holds the receiving end of the outbound queue; once the encode loop
\* has ended the send fails, the worker panics and nothing is enqueued.
C7_HandlerReturnEnqueuesWhileWriterRuns ==
    [][\A w \in Workers :
         /\ C7_ResponseBuilt(w)
         /\ C7_Ended(w)
         /\ (workerPc[w] = "send" /\ workerPc'[w] # "send")
            => IF writer \in {"recv", "encode"}
               THEN /\ enqueued' = Append(enqueued, SinkMessage(workerOut[w][1]))
                    /\ sink' = Append(sink, SinkMessage(workerOut[w][1]))
                    /\ workerPc'[w] = "ok"
               ELSE /\ enqueued' = enqueued
                    /\ sink' = sink
                    /\ workerPc'[w] = "panicked"]_vars

\* a handler returned Err("custom") for the peer's Request 7: the formatted
\* error is on the outbound queue and both loops still run
C7_Witness ==
    /\ \E i \in 1..Len(enqueued) :
           /\ enqueued[i].msg.type = "Response"
           /\ enqueued[i].msg.id = 7
           /\ enqueued[i].msg.results = None
           /\ enqueued[i].msg.error = Some(<<"internal error: ", "custom">>)
    /\ \E w \in Workers : workerPc[w] = "ok"
    /\ reader = "decode"
    /\ writer \in {"recv", "encode"}

\* C8: join returns only after it has received the result of both loops,
\* which have both ended; it returns Err iff one of the two results is a
\* failure, the first received when both are; a failure in the first result
\* does not make it return before the second.
C8_JoinWaitsForBoth ==
    \A j \in Joins :
        /\ joinPc[j] = "returned" =>
               /\ Len(joinRes[j]) = 2
               /\ reader = "panicked"
               /\ writer \in {"returned", "panicked"}
               /\ joinRet[j] # None
               /\ ~joinRet[j][1].ok <=> (~joinRes[j][1].ok \/ ~joinRes[j][2].ok)
               /\ ~joinRes[j][1].ok => joinRet[j][1] = joinRes[j][1]
               /\ (joinRes[j][1].ok /\ ~joinRes[j][2].ok) => joinRet[j][1] = joinRes[j][2]
        /\ joinPc[j] # "returned" => joinRet[j] = None
        /\ joinPc[j] = "recv2" => Len(joinRes[j]) = 1

\* join has returned the reader's panic, received first, the writer's
\* panic having been received second
C8_Witness ==
    /\ joinPc[1] = "returned"
    /\ joinRes[1] = <<Err(<<"panic", "reader">>), Err(<<"panic", "writer">>)>>
    /\ joinRet[1] = Some(Err(<<"panic", "reader">>))

\* C9 (as claimed): a second join, made after a first join has consumed
\* both results, never returns a value and never fails.
C9_SecondJoinBlocksForever ==
    \A j \in Joins :
        (j > 1 /\ joinPc[1] = "returned") => joinPc[j] \notin {"returned", "panicked"}

\* C9 (amended): a join made after a first join has consumed both results
\* never receives a result and never returns a value; it blocks while a
\* supervisory thread still holds a sender of the error channel, and once
\* both have exited its first recv fails and the unwrap panics.
C9_SecondJoinNeverReturns ==
    \A j \in Joins :
        (j > 1 /\ joinPc[1] = "returned") =>
            /\ joinPc[j] \in {"idle", "recv1", "panicked"}
            /\ joinRes[j] = <<>>
            /\ joinRet[j] = None
            /\ joinPc[j] = "panicked" =>
                   /\ \A s \in Loops : supervisor[s] = "exit"
                   /\ err_rx = <<>>

\* the first join has returned and the second has panicked
C9_Witness ==
    /\ joinPc[1] = "returned"
    /\ joinPc[2] = "panicked"

\* the messages of a sequence of SinkValues
Messages(q) == [i \in 1..Len(q) |-> q[i].msg]

\* C10: while the encode loop runs, what it has encoded, what it is
\* encoding and what is still queued are, in this order, exactly the
\* messages in the order they were enqueued: none encoded twice, skipped or
\* out of order; after it has ended, what it encoded is still a prefix.
C10_EncodedInEnqueueOrder ==
    LET sent == Messages(enqueued) IN
    /\ Len(wire) <= Len(sent)
    /\ \A i \in 1..Len(wire) : wire[i] = sent[i]
    /\ writer \in {"recv", "encode"} =>
           sent = wire \o writerMsg \o Messages(sink)

\* three messages of callers and of a dispatch worker have been encoded
C10_Witness ==
    /\ Len(wire) = 3
    /\ wire[1].type = "Request"
    /\ wire[2].type = "Response"
    /\ wire[3].type = "Request"
    /\ writer = "recv"

\* whether a Request carrying id k is among the messages of q
HasRequest(q, k) == \E i \in 1..Len(q) : q[i].type = "Request" /\ q[i].id = k

\* C11 (as claimed): call_raw never blocks forever once the encode loop is
\* gone: a send made after the loop has ended returns an error, and a call
\* blocked on its completion channel, no Response delivered, when the loop
\* has ended eventually returns an error.
C11_CallFailsOnceWriterGone ==
    /\ [][\A c \in Calls :
            (/\ callPc[c] = "registered"
             /\ writer \in {"returned", "panicked"}
             /\ callPc'[c] # "registered")
            => (callPc'[c] = "done" /\ ~callResult'[c][1].ok)]_vars
    /\ \A c \in Calls :
           (/\ callPc[c] = "waiting"
            /\ writer \in {"returned", "panicked"}
            /\ completion[c] = <<>>)
               ~> (callPc[c] = "done" /\ ~callResult[c][1].ok)

\* C13: call_raw inserts the in-flight entry for its id before it enqueues
\* the Request with that id: while a call holds an id it has not registered
\* yet, no Request with that id has been enqueued or encoded, so a peer that
\* only answers Requests it has received cannot answer it yet; and a call
\* whose Request is enqueued is past its registration.
C13_RegisteredBeforeEnqueued ==
    \A c \in Started :
        /\ callPc[c] = "allocated" =>
               /\ ~HasRequest(Messages(enqueued), callId[c])
               /\ ~HasRequest(wire, callId[c])
               /\ callId[c] \notin DOMAIN in_flight_requests
        /\ HasRequest(Messages(enqueued), callId[c]) => callPc[c] \in {"waiting", "done"}

\* one call's Request is encoded and its entry is in the table, while
\* another call holds an id it has not registered yet
C13_Witness ==
    \E c, d \in Calls :
        /\ callPc[c] = "waiting"
        /\ HasRequest(wire, callId[c])
        /\ callId[c] \in DOMAIN in_flight_requests
        /\ callPc[d] = "allocated"

\* C14: every key of the in-flight table is an id returned by next_id, so
\* below the counter, registered by the call that holds it under the method
\* of its params, and no Response has been taken for it: none delivered to
\* its caller, none in delivery.
C14_InFlightKeysOutstanding ==
    \A k \in DOMAIN in_flight_requests :
        LET c == in_flight_requests[k].tx IN
        /\ k >= 0 /\ k < id
        /\ c \in Started
        /\ callId[c] = k
        /\ callPc[c] \in {"registered", "waiting", "done"}
        /\ in_flight_requests[k].method = method(callParams[c][1])
        /\ completion[c] = <<>>
        /\ ~Received(c)
        /\ \A w \in Workers : workerPc[w] = "deliver" => workerOut[w][1].tx # c

\* two ids were allocated: the Response to id 0 was delivered and its key is
\* gone, the entry of id 1 is still in the table
C14_Witness ==
    /\ DOMAIN in_flight_requests = {1}
    /\ id = 2
    /\ \E c \in Calls : callId[c] = 0 /\ Received(c)

\* C15 (as claimed): when a Response is dispatched for an id present in the
\* table whose caller has dropped the receiving end of the completion
\* channel, the delivery failure is ignored and the dispatch returns Ok.
C15_DeliveryFailureIgnored ==
    [][\A w \in Workers :
         (/\ workerPc[w] = "deliver"
          /\ callPc[workerOut[w][1].tx] = "done"
          /\ workerPc'[w] # "deliver")
         => workerPc'[w] = "ok"]_vars

\* C19: join never returns Ok: the decode loop only ends by panicking,
\* the Shutdown sentinel is never enqueued so the encode loop never returns
\* cleanly, and whatever join returns is an Err.
C19_JoinNeverReturnsOk ==
    /\ reader \in {"decode", "panicked"}
    /\ writer # "returned"
    /\ \A i \in 1..Len(enqueued) : enqueued[i].kind = "Message"
    /\ \A i \in 1..Len(err_rx) : ~err_rx[i].ok
    /\ \A j \in Joins :
           joinPc[j] = "returned" => (joinRet[j] # None /\ ~joinRet[j][1].ok)

\* join has returned the writer's panic, received before the reader's
C19_Witness ==
    /\ joinPc[1] = "returned"
    /\ joinRes[1] = <<Err(<<"panic", "writer">>), Err(<<"panic", "reader">>)>>
    /\ ~joinRet[1][1].ok

\* C20: an in-flight entry leaves the table only in the dispatch of a
\* Response with its id; a call_raw that returns the error of a failed send
\* leaves its entry in the table, where get_pending still reports it; and
\* shutdown and join remove nothing.
C20_EntryRemovedOnlyByResponse ==
    [][/\ \A k \in DOMAIN in_flight_requests :
            k \notin DOMAIN in_flight_requests' =>
                \E w \in Workers :
                    /\ workerPc[w] = "start"
                    /\ workerMsg[w].type = "Response"
                    /\ workerMsg[w].id = k
                    /\ workerPc'[w] = "deliver"
       /\ \A c \in Calls :
            (callPc[c] = "registered" /\ callPc'[c] = "done") =>
                /\ in_flight_requests' = in_flight_requests
                /\ (callId[c] \in DOMAIN in_flight_requests =>
                        get_pending(in_flight_requests', callId[c])
                            = Some(method(callParams[c][1])))
       /\ (conn' # conn \/ joinPc' # joinPc) =>
            in_flight_requests' = in_flight_requests]_vars

\* a call has returned the error of a failed send and its entry is still
\* in the table
C20_Witness ==
    \E c \in Calls :
        /\ callPc[c] = "done"
        /\ callResult[c] = Some(Err(<<"SendError">>))
        /\ callId[c] \in DOMAIN in_flight_requests
        /\ in_flight_requests[callId[c]].tx = c

\* a handler invocation that has not returned
HandlerRunning(w) == workerPc[w] = "start" /\ workerMsg[w].type = "Request"

\* C12: a handler invocation that has not returned, and may never return,
\* prevents neither the decode loop from decoding the next message nor a
\* Response decoded later from reaching its waiting caller: whenever a
\* Response is dispatched for the id of a registered entry whose caller
\* waits on its completion channel, that caller eventually receives a
\* Response, under a scheduling that is fair to the critical sections, the
\* dispatch of Responses and the blocked callers, and to no handler.
C12_HandlerNeverBlocksDispatch ==
    /\ []((/\ \E w \in Workers : HandlerRunning(w)
           /\ reader = "decode"
           /\ conn = "open"
           /\ Len(workerMsg) < MaxDecode) => ENABLED ReaderDecode)
    /\ \A c \in Calls :
           (/\ callPc[c] = "waiting"
            /\ \E w \in Workers :
                   /\ workerPc[w] = "start"
                   /\ workerMsg[w].type = "Response"
                   /\ workerMsg[w].id \in DOMAIN in_flight_requests
                   /\ in_flight_requests[workerMsg[w].id].tx = c)
               ~> Received(c)

\* the first message decoded is a Request whose handler has not returned;
\* the Response decoded after it has been delivered and its caller has it
C12_Witness ==
    /\ Len(workerPc) = 2
    /\ HandlerRunning(1)
    /\ workerPc[2] = "ok"
    /\ \E c \in Calls : Received(c)

\* C16: a dispatch worker that fails on a Notification or in a panicking
\* handler ends alone: its failing step changes nothing of the decode loop,
\* the encode loop, the outbound queue, the table, the callers and the other
\* workers, the mutex is never poisoned, and the decode loop can still
\* decode the next message.
C16_WorkerFailureIsolated ==
    /\ [](~lock.poisoned)
    /\ []((/\ \E w \in Workers : workerPc[w] = "panicked"
           /\ reader = "decode"
           /\ conn = "open"
           /\ Len(workerMsg) < MaxDecode) => ENABLED ReaderDecode)
    /\ [][\A w \in Workers :
            (/\ workerPc[w] = "start"
             /\ workerMsg[w].type \in {"Notification", "Request"}
             /\ workerPc'[w] = "panicked")
            => /\ reader' = reader
               /\ UNCHANGED <<writerVars, sink, enqueued, conn>>
               /\ UNCHANGED <<id, in_flight_requests, lock>>
               /\ UNCHANGED <<callVars, completion>>
               /\ \A v \in Workers \ {w} :
                      /\ workerPc'[v] = workerPc[v]
                      /\ workerMsg'[v] = workerMsg[v]
                      /\ workerOut'[v] = workerOut[v]]_vars

\* the first worker has panicked while both loops run (so it failed on a
\* Notification or in its handler), and the Response decoded after it has
\* reached its caller
C16_Witness ==
    /\ Len(workerPc) = 2
    /\ workerPc[1] = "panicked"
    /\ workerPc[2] = "ok"
    /\ reader = "decode"
    /\ writer = "recv"
    /\ conn = "open"
    /\ lock = Unlocked
    /\ \E c \in Calls : Received(c)

\* C17: the thread that holds the Queue mutex is in a critical section of
\* call_raw (id allocation, insert) or of handle_message (remove): never a
\* thread that is sending, receiving, running a handler, encoding or
\* decoding; and the holder's next step, which releases the mutex, can
\* always be taken, so nobody waits for the mutex because its holder is
\* blocked.
C17_LockHeldOnlyInCriticalSection ==
    /\ lock.holder = None
       \/ \E c \in Calls : lock.holder = Some(CallThread(c))
       \/ \E w \in Workers : lock.holder = Some(WorkerThread(w))
    /\ \A c \in Calls :
           /\ lock.holder = Some(CallThread(c))
                  <=> callPc[c] \in {"locked_next_id", "locked_insert"}
           /\ callPc[c] = "locked_next_id" => ENABLED CallNextIdLocked(c)
           /\ callPc[c] = "locked_insert" => ENABLED CallInsertLocked(c)
    /\ \A w \in Workers :
           /\ lock.holder = Some(WorkerThread(w)) <=> workerPc[w] = "locked_remove"
           /\ workerPc[w] = "locked_remove" => ENABLED WorkerRemoveLocked(w)

\* a dispatch worker holds the mutex while a handler runs in another worker
\* and a call_raw is about to ask for the mutex
C17_Witness ==
    \E w, v \in Workers :
        /\ workerPc[w] = "locked_remove"
        /\ HandlerRunning(v)
        /\ \E c \in Calls : callPc[c] = "allocated"

\* C18: get_pending(id) returns Some(method) of the call_raw that registered
\* id, the method name of the params it was called with, exactly when id is
\* a key of the in-flight table, and None otherwise; the query changes
\* neither the id counter nor the table.
C18_GetPendingReportsRegistered ==
    [][Len(pending') > Len(pending) =>
         LET q == pending'[Len(pending')] IN
         /\ q.key \in DOMAIN in_flight_requests =>
                \E c \in Started :
                    /\ callId[c] = q.key
                    /\ callPc[c] \in {"registered", "waiting", "done"}
                    /\ q.val = Some(method(callParams[c][1]))
         /\ q.key \notin DOMAIN in_flight_requests => q.val = None
         /\ id' = id
         /\ in_flight_requests' = in_flight_requests]_vars

\* the query for id 0 reported the method of the second caller, which had
\* registered it; the entry has been removed since and its Response received
C18_Witness ==
    /\ pending = <<[key |-> 0, val |-> Some("add")]>>
    /\ 0 \notin DOMAIN in_flight_requests
    /\ callId[2] = 0
    /\ Received(2)

\* C3 (as claimed): after shutdown both loops eventually end, and a join in
\* progress or made afterwards eventually returns.
C3_LoopsEndAfterShutdown ==
    /\ (conn = "shutdown") ~> (reader = "panicked" /\ writer \in {"returned", "panicked"})
    /\ (conn = "shutdown" /\ joinPc[1] = "recv1") ~> (joinPc[1] = "returned")

\* C2 (as claimed): a call_raw that is blocked on its completion channel, no
\* Response delivered, when the connection has been shut down eventually
\* returns an error.
C2_BlockedCallFailsAfterShutdown ==
    \A c \in Calls :
        (conn = "shutdown" /\ callPc[c] = "waiting" /\ completion[c] = <<>>)
            ~> (callPc[c] = "done" /\ ~callResult[c][1].ok)

====
